---- MODULE Spec2Model ----
\* Box plot of the housing visualisation (class BoxPlot, listed in
\* src/demo/README.md lines 253-537): the statistics function
\* calculateBoxStats and the init / click / draw life cycle of the chart.
\*
\* Numbers.  JavaScript numbers are modelled by integers.  Every input value
\* is a multiple of 8 (or the example of the specification), so that the
\* interpolation of d3.quantile (quarters of a difference) and the factor
\* 1.5 of the fences stay exact in integer arithmetic.  NaN and undefined
\* are two values outside the range of the data; every arithmetic and
\* comparison operator below treats them as JavaScript does.
EXTENDS Integers, Sequences, FiniteSets, TLC

\* ------------------------------------------------------------------ bounds
MaxLen == 5      \* longest array handed to calculateBoxStats in StatSpec
MaxVal == 3      \* values of StatSpec are 8*1 .. 8*MaxVal
MaxCalls == 2    \* calls of calculateBoxStats on one array in StatSpec
MaxRows == 4     \* rows of the CSV file
MaxMapRows == 3  \* rows of the CSV file as the map reads it in MapSpec
MaxCities == 5   \* cities handed to assignCoordinates in GridSpec

\* ------------------------------------------------------- JavaScript values
NaN == -999999
Undefined == -888888

IsNum(v) == v # NaN /\ v # Undefined

\* a - b, a + b on numbers; NaN as soon as one operand is NaN or undefined
Sub(a, b) == IF IsNum(a) /\ IsNum(b) THEN a - b ELSE NaN
Add(a, b) == IF IsNum(a) /\ IsNum(b) THEN a + b ELSE NaN
\* 1.5 * a
OneAndAHalf(a) == IF IsNum(a) THEN (3 * a) \div 2 ELSE NaN
\* a < b, a > b: false as soon as one operand is NaN or undefined
Lt(a, b) == IsNum(a) /\ IsNum(b) /\ a < b
Gt(a, b) == IsNum(a) /\ IsNum(b) /\ a > b
\* Math.max(a, b), Math.min(a, b): NaN when an operand is NaN or undefined
MathMax(a, b) == IF IsNum(a) /\ IsNum(b) THEN (IF a >= b THEN a ELSE b) ELSE NaN
MathMin(a, b) == IF IsNum(a) /\ IsNum(b) THEN (IF a <= b THEN a ELSE b) ELSE NaN

\* ------------------------------------------------------------ d3 helpers
Range(s) == {s[i] : i \in DOMAIN s}

RECURSIVE Insert(_, _)
Insert(v, s) ==
    IF s = <<>> THEN <<v>>
    ELSE IF v <= Head(s) THEN <<v>> \o s
    ELSE <<Head(s)>> \o Insert(v, Tail(s))

RECURSIVE SortAscending(_)
\* values.sort(d3.ascending) on an array of numbers
SortAscending(s) ==
    IF s = <<>> THEN <<>> ELSE Insert(Head(s), SortAscending(Tail(s)))

RECURSIVE SelectSeqNum(_)
\* the numbers of an array (d3 skips NaN and undefined)
SelectSeqNum(s) ==
    IF s = <<>> THEN <<>>
    ELSE IF IsNum(Head(s)) THEN <<Head(s)>> \o SelectSeqNum(Tail(s))
    ELSE SelectSeqNum(Tail(s))

\* d3.min(array): the least number, undefined when there is none
d3min(s) ==
    LET n == SelectSeqNum(s)
    IN IF n = <<>> THEN Undefined ELSE SortAscending(n)[1]

\* d3.max(array): the greatest number, undefined when there is none
d3max(s) ==
    LET n == SelectSeqNum(s)
    IN IF n = <<>> THEN Undefined ELSE SortAscending(n)[Len(n)]

\* faulty variant of quantile: the interpolation adds the two ranks
\* instead of taking their difference
quantileSumOfRanks(s, quarters) ==
    LET a == SortAscending(SelectSeqNum(s))
        n == Len(a)
        h == (n - 1) * quarters
        i0 == h \div 4
        r == h % 4
    IN IF n = 0 THEN Undefined
       ELSE IF n < 2 THEN a[1]
       ELSE IF r = 0 THEN a[i0 + 1]
       ELSE a[i0 + 1] + ((a[i0 + 2] + a[i0 + 1]) * r) \div 4

\* d3.quantile(array, quarters/4): linear interpolation between the two
\* closest ranks (type 7) of the numbers of the array, taken in ascending
\* order; undefined on an empty array.
quantile(s, quarters) ==
    LET a == SortAscending(SelectSeqNum(s))
        n == Len(a)
        h == (n - 1) * quarters
        i0 == h \div 4
        r == h % 4
    IN IF n = 0 THEN Undefined
       ELSE IF n < 2 THEN a[1]
       ELSE IF r = 0 THEN a[i0 + 1]
       ELSE a[i0 + 1] + ((a[i0 + 2] - a[i0 + 1]) * r) \div 4

\* ------------------------------------------------------ calculateBoxStats
\* faulty variant of the first line: the array is left as it was passed
SortedInPlaceNoSort(values) == values

\* const sorted = values.sort(d3.ascending): the array as the function
\* leaves it (the sort is in place) and as the later lines read it
SortedInPlace(values) == SortAscending(values)

\* faulty variant of the lower fence: the factor 1.5 is missing
LowerFenceNoFactor(q1, iqr) == Sub(q1, iqr)

\* const min = q1 - 1.5 * iqr
LowerFence(q1, iqr) == Sub(q1, OneAndAHalf(iqr))

\* faulty variant of the upper fence: the range is subtracted
UpperFenceSubtracted(q3, iqr) == Sub(q3, OneAndAHalf(iqr))

\* const max = q3 + 1.5 * iqr
UpperFence(q3, iqr) == Add(q3, OneAndAHalf(iqr))

\* faulty variant of the three quantile calls: 0.75 and 0.25 exchanged
QuartilePositionsSwapped == [q1 |-> 3, median |-> 2, q3 |-> 1]

\* the quarters of the three quantile calls: 0.25, 0.5, 0.75
QuartilePositions == [q1 |-> 1, median |-> 2, q3 |-> 3]

calculateBoxStats(values) ==
    LET sorted == SortedInPlace(values)
        q1 == quantile(sorted, QuartilePositions.q1)
        median == quantile(sorted, QuartilePositions.median)
        q3 == quantile(sorted, QuartilePositions.q3)
        iqr == Sub(q3, q1)
        min == LowerFence(q1, iqr)
        max == UpperFence(q3, iqr)
    IN [q1 |-> q1,
        median |-> median,
        q3 |-> q3,
        iqr |-> iqr,
        min |-> MathMax(d3min(sorted), min),
        max |-> MathMin(d3max(sorted), max),
        outliers |-> SelectSeq(sorted, LAMBDA d : Lt(d, min) \/ Gt(d, max))]

\* ------------------------------------------------------------------ state
VARIABLES
    pc,             \* BoxPlot: "constructed", "fetching" (init awaits d3.csv), "ready", "rejected"
    data,           \* this.data: the rows kept after load
    currentMetric,  \* this.currentMetric
    useLogScale,    \* this.useLogScale
    svg,            \* the elements below this.svg, in the order they were appended
    scales,         \* the scales built by the last draw(): [x, log, domain, niceLower]
    buttonText,     \* text of the metric button
    dom,            \* what init has created outside this.svg: [svg, tooltip, controls] counts
    tooltipShown,   \* the tooltip of the box plot is visible (opacity 0.9)
    values,         \* StatSpec: the array handed to calculateBoxStats
    stats,          \* StatSpec: what the last call returned
    first,          \* StatSpec: what the first call returned
    calls,          \* StatSpec: number of calls so far
    mapPc,          \* ChoroplethMap: "constructed", "fetching", "ready", "rejected";
                    \* GridSpec: "aggregated", "assigned"
    mapRaw,         \* the rows d3.csv handed to ChoroplethMap.init
    cityData,       \* this.cityData
    gridLayout,     \* per city, the coordinates assignCoordinates gave it:
                    \* before the jitter (gx, gy) and after it (x, y)
    mapMetric,      \* this.currentMetric of the map
    mapSvg,         \* the elements below this.svg of the map
    mapDom          \* what ChoroplethMap.init has created: [svg, tooltip, controls] counts

chartVars == <<pc, data, currentMetric, useLogScale, svg, scales, buttonText, dom,
               tooltipShown>>
statVars == <<values, stats, first, calls>>
mapVars == <<mapPc, mapRaw, cityData, gridLayout, mapMetric, mapSvg, mapDom>>
vars == <<chartVars, statVars, mapVars>>

\* ------------------------------------------------------------ the CSV file
\* one parsed row of d3.csv (city, sqft and bedrooms only feed the tooltip)
Row(type, price, pricePerSqft) ==
    [propertyType |-> type, price |-> price, pricePerSqft |-> pricePerSqft]

\* The rows a file is made of: condos with a missing (NaN), zero, small or
\* large price per square foot, townhouses with a missing or small one, a
\* row without property type and a row without price.
RawRows ==
    {Row("Condo", 40, v) : v \in {NaN, 0, 8, 64}}
    \cup {Row("Townhouse", 80, v) : v \in {NaN, 8}}
    \cup {Row("", 40, 8), Row("Condo", 0, 8)}

RECURSIVE SeqsUpTo(_, _)
SeqsUpTo(S, n) ==
    IF n = 0 THEN {<<>>}
    ELSE LET shorter == SeqsUpTo(S, n - 1)
         IN shorter \cup {Append(s, x) : s \in {t \in shorter : Len(t) = n - 1}, x \in S}

\* this.data = data.filter(d => d.propertyType && d.price > 0)
KeptOnLoad(d) == d.propertyType # "" /\ Gt(d.price, 0)

\* d[this.currentMetric]
MetricOf(d, metric) == IF metric = "price" THEN d.price ELSE d.pricePerSqft

\* ------------------------------------------------------------------- draw
RECURSIVE Unique(_, _)
Unique(s, seen) ==
    IF s = <<>> THEN <<>>
    ELSE IF Head(s) \in seen THEN Unique(Tail(s), seen)
    ELSE <<Head(s)>> \o Unique(Tail(s), seen \cup {Head(s)})

\* Array.from(new Set(this.data.map(d => d.propertyType))).filter(d => d)
PropertyTypes(rows) ==
    SelectSeq(Unique([i \in 1..Len(rows) |-> rows[i].propertyType], {}),
              LAMBDA t : t # "")

\* faulty variant of the filter: only NaN is dropped
ValidValueNaNOnly(v) == v # NaN /\ v # Undefined

\* .filter(v => v > 0 && !isNaN(v))
ValidValue(v) == Gt(v, 0) /\ v # NaN

\* the indices of the rows of one type: this.data.filter(d => d.propertyType === type)
TypeRows(rows, type) ==
    SelectSeq([i \in 1..Len(rows) |-> i], LAMBDA i : rows[i].propertyType = type)

\* one entry of boxData; data holds the indices of the rows of typeData
BoxEntry(rows, metric, type) ==
    LET typeData == TypeRows(rows, type)
        vals == SelectSeq([k \in 1..Len(typeData) |-> MetricOf(rows[typeData[k]], metric)],
                          ValidValue)
    IN [type |-> type,
        stats |-> calculateBoxStats(vals),
        data |-> typeData,
        count |-> Len(vals)]

BoxData(rows, metric) ==
    LET types == PropertyTypes(rows)
    IN [k \in 1..Len(types) |-> BoxEntry(rows, metric, types[k])]

\* boxData.flatMap(d => [d.stats.min, d.stats.max])
YValues(boxData) ==
    [k \in 1..(2 * Len(boxData)) |->
        IF k % 2 = 1 THEN boxData[(k + 1) \div 2].stats.min
        ELSE boxData[k \div 2].stats.max]

RECURSIVE PowerOfTenBelow(_, _)
\* the greatest power of ten that is <= v, for v >= p
PowerOfTenBelow(v, p) == IF 10 * p <= v THEN PowerOfTenBelow(v, 10 * p) ELSE p

\* lower end of a log domain after .nice(): rounded down to a power of ten
\* (values of the model are integers, so a positive bound is >= 1)
NiceLogLower(lo) == IF IsNum(lo) /\ lo >= 1 THEN PowerOfTenBelow(lo, 1) ELSE lo

\* the scales of draw(): the domain of the band scale x, and for y the
\* domain handed to the scale and the lower end that .nice() makes of it
Scales(rows, metric, log) ==
    LET yValues == YValues(BoxData(rows, metric))
    IN IF log
       THEN [x |-> PropertyTypes(rows),
             log |-> TRUE,
             domain |-> <<d3min(yValues), d3max(yValues)>>,
             niceLower |-> NiceLogLower(d3min(yValues))]
       ELSE [x |-> PropertyTypes(rows),
             log |-> FALSE,
             domain |-> <<0, d3max(yValues)>>,
             niceLower |-> 0]

\* an element appended below this.svg
Element(tag, cls, type, row, val, text) ==
    [tag |-> tag, cls |-> cls, type |-> type, row |-> row, val |-> val, text |-> text]

\* boxes = selectAll('.box').data(boxData).enter().append('g') and the five
\* appends on boxes: whisker line, rect, median line and the two caps
BoxGlyphs(boxData) ==
    LET n == Len(boxData)
        G(k) == Element("g", "box", boxData[k].type, 0, NaN, "")
        Whisker(k) == Element("line", "whisker", boxData[k].type, 0, boxData[k].stats.min, "")
        Rect(k) == Element("rect", "rect", boxData[k].type, 0, boxData[k].stats.q3, "")
        Median(k) == Element("line", "median", boxData[k].type, 0, boxData[k].stats.median, "")
        CapMin(k) == Element("line", "cap", boxData[k].type, 0, boxData[k].stats.min, "")
        CapMax(k) == Element("line", "cap", boxData[k].type, 0, boxData[k].stats.max, "")
    IN [k \in 1..n |-> G(k)] \o [k \in 1..n |-> Whisker(k)] \o [k \in 1..n |-> Rect(k)]
       \o [k \in 1..n |-> Median(k)] \o [k \in 1..n |-> CapMin(k)] \o [k \in 1..n |-> CapMax(k)]

\* outlierData of one entry: the rows of the type whose value is below
\* stats.min or above stats.max
OutlierData(rows, metric, d) ==
    SelectSeq(d.data, LAMBDA i : \/ Lt(MetricOf(rows[i], metric), d.stats.min)
                                 \/ Gt(MetricOf(rows[i], metric), d.stats.max))

\* the circles of one entry: selectAll('.outlier-type') matches nothing
\* (no circle carries a class), so every row of outlierData enters
OutlierCircles(rows, metric, d) ==
    LET o == OutlierData(rows, metric, d)
    IN [k \in 1..Len(o) |->
          Element("circle", "", d.type, o[k], MetricOf(rows[o[k]], metric), "")]

RECURSIVE AllOutlierCircles(_, _, _, _)
\* boxData.forEach(d => ... append('circle'))
AllOutlierCircles(rows, metric, boxData, k) ==
    IF k > Len(boxData) THEN <<>>
    ELSE OutlierCircles(rows, metric, boxData[k])
         \o AllOutlierCircles(rows, metric, boxData, k + 1)

\* const yLabel = ...
YLabel(metric) == IF metric = "price" THEN "Price ($)" ELSE "Price per Sqft ($)"

\* the title text
Title(log) ==
    IF log THEN "Price Distribution by Property Type (Log Scale)"
    ELSE "Price Distribution by Property Type "

\* the two axis groups (their ticks are drawn by d3.axis inside the group)
\* and the two labels
AxesAndLabels(metric, log) ==
    << Element("g", "x-axis", "", 0, NaN, ""),
       Element("g", "y-axis", "", 0, NaN, ""),
       Element("text", "title", "", 0, NaN, Title(log)),
       Element("text", "y-label", "", 0, NaN, YLabel(metric)) >>

\* faulty variant of the first line of draw(): nothing is removed
ClearedNothing(elements) == elements

\* this.svg.selectAll('*').remove()
Cleared(elements) == <<>>

\* faulty variant of draw(): it returns before the axes when there is no box
AppendedNothingWhenEmpty(rows, metric, log) ==
    LET boxData == BoxData(rows, metric)
    IN IF boxData = <<>> THEN <<>>
       ELSE BoxGlyphs(boxData) \o AllOutlierCircles(rows, metric, boxData, 1)
            \o AxesAndLabels(metric, log)

\* everything draw() appends, in order
Appended(rows, metric, log) ==
    LET boxData == BoxData(rows, metric)
    IN BoxGlyphs(boxData) \o AllOutlierCircles(rows, metric, boxData, 1)
       \o AxesAndLabels(metric, log)

RECURSIVE InsertRow(_, _, _)
InsertRow(d, rows, metric) ==
    IF rows = <<>> THEN <<d>>
    ELSE IF ~Gt(MetricOf(d, metric), MetricOf(Head(rows), metric)) THEN <<d>> \o rows
    ELSE <<Head(rows)>> \o InsertRow(d, Tail(rows), metric)

RECURSIVE DataSortedInPlace(_, _)
\* faulty variant of draw(): the rows themselves are sorted by the metric
DataSortedInPlace(rows, metric) ==
    IF rows = <<>> THEN <<>>
    ELSE InsertRow(Head(rows), DataSortedInPlace(Tail(rows), metric), metric)

\* this.data after draw(): filter and map build new arrays (typeData,
\* values), and the in-place sort of calculateBoxStats works on values
DataAfterDraw(rows, metric) == rows

\* faulty variant of the button text: the active metric is named
MetricButtonTextActive(metric) ==
    IF metric = "price" THEN "Switch to Price" ELSE "Switch to Price per Sqft"

\* the text the click handler gives the metric button
MetricButtonText(metric) ==
    IF metric = "price" THEN "Switch to Price per Sqft" ELSE "Switch to Price"

\* draw(): the content of this.svg after the call
Drawn(elements, rows, metric, log) == Cleared(elements) \o Appended(rows, metric, log)

\* -------------------------------------------------------------- life cycle
NoStats == [q1 |-> Undefined, median |-> Undefined, q3 |-> Undefined, iqr |-> Undefined,
            min |-> Undefined, max |-> Undefined, outliers |-> <<>>]
NoScale == [x |-> <<>>, log |-> FALSE, domain |-> <<Undefined, Undefined>>, niceLower |-> Undefined]

\* new ChoroplethMap(containerId)
MapConstructed ==
    /\ mapPc = "constructed"
    /\ mapRaw = <<>>
    /\ cityData = <<>>
    /\ gridLayout = <<>>
    /\ mapMetric = "avgPrice"
    /\ mapSvg = <<>>
    /\ mapDom = [svg |-> 0, tooltip |-> 0, controls |-> 0]

\* new BoxPlot(containerId)
Init ==
    /\ pc = "constructed"
    /\ data = <<>>
    /\ currentMetric = "price"
    /\ useLogScale = FALSE
    /\ svg = <<>>
    /\ scales = NoScale
    /\ buttonText = ""
    /\ dom = [svg |-> 0, tooltip |-> 0, controls |-> 0]
    /\ tooltipShown = FALSE
    /\ values = <<>>
    /\ stats = NoStats
    /\ first = NoStats
    /\ calls = 0
    /\ MapConstructed

\* faulty variant of init(): the controls are added before the await
InitStartControlsFirst ==
    /\ pc = "constructed"
    /\ pc' = "fetching"
    /\ dom' = [dom EXCEPT !.controls = dom.controls + 1]
    /\ buttonText' = "Switch to Price per Sqft"
    /\ UNCHANGED <<data, currentMetric, useLogScale, svg, scales, tooltipShown>>
    /\ UNCHANGED <<statVars, mapVars>>

\* init() up to the await of d3.csv
InitStart ==
    /\ pc = "constructed"
    /\ pc' = "fetching"
    /\ UNCHANGED <<data, currentMetric, useLogScale, svg, scales, buttonText, dom,
                   tooltipShown>>
    /\ UNCHANGED <<statVars, mapVars>>

\* init() from the point where d3.csv resolves with the parsed rows
FetchResolved(raw) ==
    /\ pc = "fetching"
    /\ pc' = "ready"
    /\ data' = DataAfterDraw(SelectSeq(raw, KeptOnLoad), currentMetric)
    /\ dom' = [svg |-> dom.svg + 1, tooltip |-> dom.tooltip + 1, controls |-> dom.controls + 1]
    /\ buttonText' = "Switch to Price per Sqft"
    /\ svg' = Drawn(svg, SelectSeq(raw, KeptOnLoad), currentMetric, useLogScale)
    /\ scales' = Scales(SelectSeq(raw, KeptOnLoad), currentMetric, useLogScale)
    /\ UNCHANGED <<currentMetric, useLogScale, tooltipShown>>
    /\ UNCHANGED <<statVars, mapVars>>

\* d3.csv rejects: init() ends at the await, nothing catches the rejection
FetchRejected ==
    /\ pc = "fetching"
    /\ pc' = "rejected"
    /\ UNCHANGED <<data, currentMetric, useLogScale, svg, scales, buttonText, dom,
                   tooltipShown>>
    /\ UNCHANGED <<statVars, mapVars>>

\* faulty variant of the metric click handler: draw() is not called
ClickMetricNoDraw ==
    /\ dom.controls > 0
    /\ currentMetric' = IF currentMetric = "price" THEN "pricePerSqft" ELSE "price"
    /\ buttonText' = MetricButtonText(currentMetric')
    /\ UNCHANGED <<pc, data, useLogScale, svg, scales, dom, tooltipShown>>
    /\ UNCHANGED <<statVars, mapVars>>

\* click on the metric button (the button exists once addControls has run)
ClickMetric ==
    /\ dom.controls > 0
    /\ currentMetric' = IF currentMetric = "price" THEN "pricePerSqft" ELSE "price"
    /\ buttonText' = MetricButtonText(currentMetric')
    /\ svg' = Drawn(svg, data, currentMetric', useLogScale)
    /\ scales' = Scales(data, currentMetric', useLogScale)
    /\ data' = DataAfterDraw(data, currentMetric')
    /\ UNCHANGED <<pc, useLogScale, dom, tooltipShown>>
    /\ UNCHANGED <<statVars, mapVars>>

\* click on the log scale button
ClickLogScale ==
    /\ dom.controls > 0
    /\ useLogScale' = ~useLogScale
    /\ svg' = Drawn(svg, data, currentMetric, useLogScale')
    /\ scales' = Scales(data, currentMetric, useLogScale')
    /\ data' = DataAfterDraw(data, currentMetric)
    /\ UNCHANGED <<pc, currentMetric, buttonText, dom, tooltipShown>>
    /\ UNCHANGED <<statVars, mapVars>>

\* draw() called once more on the same state
Redraw ==
    /\ dom.svg > 0
    /\ svg' = Drawn(svg, data, currentMetric, useLogScale)
    /\ scales' = Scales(data, currentMetric, useLogScale)
    /\ data' = DataAfterDraw(data, currentMetric)
    /\ UNCHANGED <<pc, currentMetric, useLogScale, buttonText, dom, tooltipShown>>
    /\ UNCHANGED <<statVars, mapVars>>

\* mouseover on a box (rect) or on an outlier circle: the tooltip is
\* filled from the datum of the element and shown
MouseOver(k) ==
    /\ k \in DOMAIN svg
    /\ svg[k].tag \in {"rect", "circle"}
    /\ tooltipShown' = TRUE
    /\ UNCHANGED <<pc, data, currentMetric, useLogScale, svg, scales, buttonText, dom>>
    /\ UNCHANGED <<statVars, mapVars>>

\* mouseout of a box or an outlier circle: the tooltip fades out
MouseOut(k) ==
    /\ k \in DOMAIN svg
    /\ svg[k].tag \in {"rect", "circle"}
    /\ tooltipShown' = FALSE
    /\ UNCHANGED <<pc, data, currentMetric, useLogScale, svg, scales, buttonText, dom>>
    /\ UNCHANGED <<statVars, mapVars>>

Next ==
    \/ InitStart
    \/ \E raw \in SeqsUpTo(RawRows, MaxRows) : FetchResolved(raw)
    \/ FetchRejected
    \/ ClickMetric
    \/ ClickLogScale
    \/ Redraw
    \/ \E k \in DOMAIN svg : MouseOver(k)
    \/ \E k \in DOMAIN svg : MouseOut(k)

Spec == Init /\ [][Next]_vars

\* ------------------------------------------- calculateBoxStats on its own
StatValues == {8 * k : k \in 1..MaxVal}

\* the example of the specification
ExampleInput == <<10, 20, 30, 40, 1000>>

StatInputs == SeqsUpTo(StatValues, MaxLen) \cup {ExampleInput}

InitStat ==
    /\ pc = "constructed"
    /\ data = <<>>
    /\ currentMetric = "price"
    /\ useLogScale = FALSE
    /\ svg = <<>>
    /\ scales = NoScale
    /\ buttonText = ""
    /\ dom = [svg |-> 0, tooltip |-> 0, controls |-> 0]
    /\ tooltipShown = FALSE
    /\ values \in StatInputs
    /\ stats = NoStats
    /\ first = NoStats
    /\ calls = 0
    /\ MapConstructed

\* a call calculateBoxStats(values); the array is sorted in place
Summarize ==
    /\ calls < MaxCalls
    /\ stats' = calculateBoxStats(values)
    /\ first' = IF calls = 0 THEN stats' ELSE first
    /\ values' = SortedInPlace(values)
    /\ calls' = calls + 1
    /\ UNCHANGED <<chartVars, mapVars>>

\* the caller holds the same values in another order (the order of the
\* array follows the order of the rows)
Reorder(i, j) ==
    /\ i < j
    /\ values[i] # values[j]
    /\ values' = [values EXCEPT ![i] = values[j], ![j] = values[i]]
    /\ UNCHANGED <<stats, first, calls>>
    /\ UNCHANGED <<chartVars, mapVars>>

NextStat ==
    \/ Summarize
    \/ \E i, j \in 1..Len(values) : Reorder(i, j)

StatSpec == InitStat /\ [][NextStat]_vars

\* ================================================ ChoroplethMap
\* (src/js/choropleth.js).  Averages, ratios and colour thresholds are exact
\* in integers for the rows below: prices are multiples of 1800, prices per
\* square foot multiples of 60 and incomes 10 or 30, with at most six rows
\* per city.  Coordinates are fractions [num, den].

\* this.width = 900 - margin.left - margin.right
MapWidth == 900 - 30 - 30

\* this.height = 600 - margin.top - margin.bottom
MapHeight == 600 - 40 - 30

\* d3.schemeYlOrRd[7]: the number of colours of the scale
ColorSteps == 7

\* the options of the select
MetricOptions == {"avgPrice", "avgPricePerSqft", "priceToIncome", "medianIncome"}

\* one parsed row of d3.csv (sqft is read and never used)
MapRow(city, price, pricePerSqft, medianIncome, population) ==
    [city |-> city, price |-> price, pricePerSqft |-> pricePerSqft,
     medianIncome |-> medianIncome, population |-> population]

\* the rows a file is made of
MapRawRows ==
    {MapRow("Boston", 3600, 120, 30, 9), MapRow("Boston", 1800, 60, 30, 9),
     MapRow("Acton", 1800, 60, 10, 4), MapRow("Salem", 3600, 60, 10, 1),
     MapRow("Unknown", 1800, 60, 10, 1)}

\* city names in the order of localeCompare
CityNames == <<"Acton", "Boston", "Concord", "Dedham", "Everett", "Framingham",
               "Groton", "Salem", "Unknown">>

CityRank(city) == CHOOSE i \in DOMAIN CityNames : CityNames[i] = city

\* a.city.localeCompare(b.city) < 0
CityBefore(a, b) == CityRank(a.city) < CityRank(b.city)

RECURSIVE SumOf(_)
SumOf(s) == IF s = <<>> THEN 0 ELSE Head(s) + SumOf(Tail(s))

\* d3.mean: the mean of the numbers of an array, undefined when there is none
d3mean(s) ==
    LET n == SelectSeqNum(s)
    IN IF n = <<>> THEN Undefined ELSE SumOf(n) \div Len(n)

\* a / b for a divisor that is a number other than zero
Div(a, b) == IF IsNum(a) /\ IsNum(b) /\ b # 0 THEN a \div b ELSE NaN

\* the reducer of d3.rollup on the rows v of one city, with the city and
\* with x and y not yet assigned
CityEntry(city, v) ==
    [city |-> city,
     avgPrice |-> d3mean([k \in DOMAIN v |-> v[k].price]),
     avgPricePerSqft |-> d3mean([k \in DOMAIN v |-> v[k].pricePerSqft]),
     medianIncome |-> v[1].medianIncome,
     population |-> v[1].population,
     count |-> Len(v),
     priceToIncome |-> Div(d3mean([k \in DOMAIN v |-> v[k].price]), v[1].medianIncome),
     x |-> Undefined,
     y |-> Undefined]

\* this.cityData before assignCoordinates: d3.rollup by city, in the order
\* in which the cities first occur, without the city 'Unknown'
Aggregated(raw) ==
    LET keys == Unique([i \in DOMAIN raw |-> raw[i].city], {})
        Group(city) == SelectSeq(raw, LAMBDA d : d.city = city)
    IN SelectSeq([k \in DOMAIN keys |-> CityEntry(keys[k], Group(keys[k]))],
                 LAMBDA d : d.city # "Unknown")

RECURSIVE CeilSqrtFrom(_, _)
CeilSqrtFrom(n, c) == IF c * c >= n THEN c ELSE CeilSqrtFrom(n, c + 1)

\* const cols = Math.ceil(Math.sqrt(this.cityData.length))
Cols(n) == CeilSqrtFrom(n, 0)

\* Math.ceil(this.cityData.length / cols)
GridRows(n) == (n + Cols(n) - 1) \div Cols(n)

RECURSIVE InsertCity(_, _)
InsertCity(d, s) ==
    IF s = <<>> THEN <<d>>
    ELSE IF CityBefore(Head(s), d) THEN <<Head(s)>> \o InsertCity(d, Tail(s))
    ELSE <<d>> \o s

RECURSIVE SortByCity(_)
\* this.cityData.sort((a, b) => a.city.localeCompare(b.city))
SortByCity(s) == IF s = <<>> THEN <<>> ELSE InsertCity(Head(s), SortByCity(Tail(s)))

Fraction(num, den) == [num |-> num, den |-> den]

\* d.x = (i % cols) * (this.width / cols) + (this.width / cols / 2)
GridX(i, n) == Fraction((2 * (i % Cols(n)) + 1) * MapWidth, 2 * Cols(n))

\* faulty variant of d.y: the row is rounded up
GridYRoundedUp(i, n) ==
    Fraction(((i + Cols(n) - 1) \div Cols(n)) * MapHeight + 20 * GridRows(n), GridRows(n))

\* d.y = Math.floor(i / cols) * (this.height / Math.ceil(n / cols)) + 20
GridY(i, n) == Fraction((i \div Cols(n)) * MapHeight + 20 * GridRows(n), GridRows(n))

\* d.x += j
Moved(q, j) == Fraction(q.num + j * q.den, q.den)

\* (Math.random() - 0.5) * 20 lies in [-10, 10): the two ends and the middle
\* are the outcomes the model draws
JitterInputs == {-10, 9}
JitterPairs == [x : JitterInputs, y : JitterInputs]

\* this.cityData after assignCoordinates, for the jitter drawn per city
AssignCoordinates(entries, jitter) ==
    LET sorted == SortByCity(entries)
        n == Len(sorted)
    IN [k \in 1..n |->
          [sorted[k] EXCEPT !.x = Moved(GridX(k - 1, n), jitter[k].x),
                            !.y = Moved(GridY(k - 1, n), jitter[k].y)]]

\* what assignCoordinates gave each city: the grid position of the first
\* forEach and the position after the second
GridLayoutOf(entries, jitter) ==
    LET sorted == SortByCity(entries)
        n == Len(sorted)
    IN [k \in 1..n |->
          [city |-> sorted[k].city,
           gx |-> GridX(k - 1, n),
           gy |-> GridY(k - 1, n),
           x |-> Moved(GridX(k - 1, n), jitter[k].x),
           y |-> Moved(GridY(k - 1, n), jitter[k].y)]]

\* d[this.currentMetric]
MapMetricOf(d, metric) ==
    CASE metric = "avgPrice" -> d.avgPrice
      [] metric = "avgPricePerSqft" -> d.avgPricePerSqft
      [] metric = "priceToIncome" -> d.priceToIncome
      [] metric = "medianIncome" -> d.medianIncome

\* d3.extent(values)
Extent(s) == <<d3min(s), d3max(s)>>

\* colorScale(v) of d3.scaleQuantize().domain(extent).range(7 colours): the
\* index of the colour, the number of thresholds
\* (i*hi + (7 - i)*lo) / 7 that are <= v; undefined for NaN
Quantize(v, extent) ==
    IF ~IsNum(v) \/ ~IsNum(extent[1]) \/ ~IsNum(extent[2]) THEN Undefined
    ELSE Cardinality({i \in 1..(ColorSteps - 1) :
            i * extent[2] + (ColorSteps - i) * extent[1] <= ColorSteps * v})

\* metricLabels[this.currentMetric]
MetricLabel(metric) ==
    CASE metric = "avgPrice" -> "Price"
      [] metric = "avgPricePerSqft" -> "Price/Sqft"
      [] metric = "priceToIncome" -> "Price-to-Income"
      [] metric = "medianIncome" -> "Income"

\* an element below this.svg of the map
MapElement(tag, cls, city, cx, cy, fill, text, extent) ==
    [tag |-> tag, cls |-> cls, city |-> city, cx |-> cx, cy |-> cy, fill |-> fill,
     text |-> text, extent |-> extent]

\* selectAll('.city-circle').data(this.cityData).enter().append('circle')
CityCircles(cd, metric) ==
    LET extent == Extent([k \in DOMAIN cd |-> MapMetricOf(cd[k], metric)])
    IN [k \in DOMAIN cd |->
          MapElement("circle", "city-circle", cd[k].city, cd[k].x, cd[k].y,
                     Quantize(MapMetricOf(cd[k], metric), extent), "", <<>>)]

\* addLegend: the group with its colour steps, the two ends of the extent
\* and the label of the metric
Legend(cd, metric) ==
    MapElement("g", "legend", "", Undefined, Undefined, Undefined, MetricLabel(metric),
               Extent([k \in DOMAIN cd |-> MapMetricOf(cd[k], metric)]))

\* the title of the map
ChartTitle ==
    MapElement("text", "chart-title", "", Undefined, Undefined, Undefined,
               "Massachusetts Housing by City", <<>>)

\* faulty variant of the two removals: only the legend is removed
LegendRemovedOnly(elements) == SelectSeq(elements, LAMBDA e : e.cls # "legend")

\* selectAll('.city-circle').remove(); selectAll('.legend').remove()
CirclesAndLegendRemoved(elements) ==
    SelectSeq(elements, LAMBDA e : e.cls \notin {"city-circle", "legend"})

\* selectAll('.chart-title').remove()
TitleRemoved(elements) == SelectSeq(elements, LAMBDA e : e.cls # "chart-title")

\* ChoroplethMap.draw(): the content of this.svg after the call
MapDrawn(elements, cd, metric) ==
    TitleRemoved(CirclesAndLegendRemoved(elements) \o CityCircles(cd, metric)
                 \o <<Legend(cd, metric)>>)
    \o <<ChartTitle>>

\* ChoroplethMap.init() up to the await of d3.csv
MapInitStart ==
    /\ mapPc = "constructed"
    /\ mapPc' = "fetching"
    /\ UNCHANGED <<mapRaw, cityData, gridLayout, mapMetric, mapSvg, mapDom>>
    /\ UNCHANGED <<chartVars, statVars>>

\* ChoroplethMap.init() from the point where d3.csv resolves
MapFetchResolved(raw, jitter) ==
    /\ mapPc = "fetching"
    /\ mapPc' = "ready"
    /\ mapRaw' = raw
    /\ cityData' = AssignCoordinates(Aggregated(raw), jitter)
    /\ gridLayout' = GridLayoutOf(Aggregated(raw), jitter)
    /\ mapDom' = [svg |-> mapDom.svg + 1, tooltip |-> mapDom.tooltip + 1,
                  controls |-> mapDom.controls + 1]
    /\ mapSvg' = MapDrawn(mapSvg, cityData', mapMetric)
    /\ UNCHANGED mapMetric
    /\ UNCHANGED <<chartVars, statVars>>

\* d3.csv rejects: init() ends at the await
MapFetchRejected ==
    /\ mapPc = "fetching"
    /\ mapPc' = "rejected"
    /\ UNCHANGED <<mapRaw, cityData, gridLayout, mapMetric, mapSvg, mapDom>>
    /\ UNCHANGED <<chartVars, statVars>>

\* change event of the select (the select exists once addControls has run)
SelectMetric(metric) ==
    /\ mapDom.controls > 0
    /\ mapMetric' = metric
    /\ mapSvg' = MapDrawn(mapSvg, cityData, metric)
    /\ UNCHANGED <<mapPc, mapRaw, cityData, gridLayout, mapDom>>
    /\ UNCHANGED <<chartVars, statVars>>

NextMap ==
    \/ MapInitStart
    \/ \E raw \in SeqsUpTo(MapRawRows, MaxMapRows) :
          \E jitter \in [1..Len(Aggregated(raw)) -> JitterPairs] :
              MapFetchResolved(raw, jitter)
    \/ MapFetchRejected
    \/ \E metric \in MetricOptions : SelectMetric(metric)

MapSpec == Init /\ [][NextMap]_vars

\* --------------------------------------------- assignCoordinates on its own
RECURSIVE Reversed(_)
Reversed(s) == IF s = <<>> THEN <<>> ELSE Reversed(Tail(s)) \o <<Head(s)>>

\* the first element moved to the end
Rotated(s) == IF s = <<>> THEN <<>> ELSE Tail(s) \o <<Head(s)>>

\* an entry of this.cityData as the aggregation leaves it
GridEntry(city) == CityEntry(city, <<MapRow(city, 1800, 60, 10, 1)>>)

\* arrays of distinct cities in an order that is not the order of the names
GridInputs ==
    LET pool == SubSeq(CityNames, 1, MaxCities)
        Entries(S) == SelectSeq([k \in DOMAIN pool |-> GridEntry(pool[k])],
                                LAMBDA d : d.city \in S)
    IN {Reversed(Entries(S)) : S \in SUBSET Range(pool)}
       \cup {Rotated(Entries(S)) : S \in SUBSET Range(pool)}

InitGrid ==
    /\ pc = "constructed"
    /\ data = <<>>
    /\ currentMetric = "price"
    /\ useLogScale = FALSE
    /\ svg = <<>>
    /\ scales = NoScale
    /\ buttonText = ""
    /\ dom = [svg |-> 0, tooltip |-> 0, controls |-> 0]
    /\ tooltipShown = FALSE
    /\ values = <<>>
    /\ stats = NoStats
    /\ first = NoStats
    /\ calls = 0
    /\ mapPc = "aggregated"
    /\ mapRaw = <<>>
    /\ cityData \in GridInputs
    /\ gridLayout = <<>>
    /\ mapMetric = "avgPrice"
    /\ mapSvg = <<>>
    /\ mapDom = [svg |-> 0, tooltip |-> 0, controls |-> 0]

\* this.assignCoordinates()
AssignOnly(jitter) ==
    /\ mapPc = "aggregated"
    /\ mapPc' = "assigned"
    /\ cityData' = AssignCoordinates(cityData, jitter)
    /\ gridLayout' = GridLayoutOf(cityData, jitter)
    /\ UNCHANGED <<mapRaw, mapMetric, mapSvg, mapDom>>
    /\ UNCHANGED <<chartVars, statVars>>

NextGrid == \E jitter \in [1..Len(cityData) -> JitterPairs] : AssignOnly(jitter)

GridSpec == InitGrid /\ [][NextGrid]_vars

\* ------------------------------------------------- both charts on one page
\* the files of PageSpec, as the two row conversions read them
PageFiles ==
    {<<>>, <<Row("Condo", 40, 8)>>, <<Row("Condo", 40, 0), Row("Townhouse", 80, 8)>>}

PageMapFiles ==
    {<<>>, <<MapRow("Boston", 3600, 120, 30, 9)>>,
     <<MapRow("Acton", 1800, 60, 10, 4), MapRow("Unknown", 1800, 60, 10, 1)>>}

NextPage ==
    \/ InitStart
    \/ \E raw \in PageFiles : FetchResolved(raw)
    \/ FetchRejected
    \/ ClickMetric
    \/ ClickLogScale
    \/ Redraw
    \/ \E k \in DOMAIN svg : MouseOver(k)
    \/ \E k \in DOMAIN svg : MouseOut(k)
    \/ MapInitStart
    \/ \E raw \in PageMapFiles :
          \E jitter \in [1..Len(Aggregated(raw)) -> JitterPairs] :
              MapFetchResolved(raw, jitter)
    \/ MapFetchRejected
    \/ \E metric \in MetricOptions : SelectMetric(metric)

PageSpec == Init /\ [][NextPage]_vars

\* ================================================================ claims
Count(s, v) == Cardinality({i \in DOMAIN s : s[i] = v})
Least(S) == CHOOSE v \in S : \A w \in S : v <= w
Greatest(S) == CHOOSE v \in S : \A w \in S : v >= w

\* a call has returned for a non-empty array (values holds the same
\* multiset as the array passed, sorted by the call)
Summarized == calls > 0 /\ values # <<>>

\* twice the fences, from the returned q1, q3, iqr: 2*(q1 - 1.5*iqr), 2*(q3 + 1.5*iqr)
TwiceLowerFenceOf(s) == 2 * s.q1 - 3 * s.iqr
TwiceUpperFenceOf(s) == 2 * s.q3 + 3 * s.iqr
IsOutlierOf(s, v) == 2 * v < TwiceLowerFenceOf(s) \/ 2 * v > TwiceUpperFenceOf(s)

\* C1: for every non-empty collection of positive values the returned min
\* is the smallest observed value >= q1 - 1.5*iqr and the returned max the
\* largest observed value <= q3 + 1.5*iqr; [10, 20, 30, 40, 1000] gives
\* q1 = 20, median = 30, q3 = 40, iqr = 20, outliers = [1000], min = 10, max = 40.
C1_WhiskerEndsObserved ==
    Summarized =>
        /\ stats.min = Least({v \in Range(values) : 2 * v >= TwiceLowerFenceOf(stats)})
        /\ stats.max = Greatest({v \in Range(values) : 2 * v <= TwiceUpperFenceOf(stats)})
        /\ values = ExampleInput =>
              /\ stats.q1 = 20 /\ stats.median = 30 /\ stats.q3 = 40 /\ stats.iqr = 20
              /\ stats.outliers = <<1000>>
              /\ stats.min = 10 /\ stats.max = 40

\* C2: for every collection with more than one distinct value the returned
\* outliers are exactly the elements below q1 - 1.5*iqr or above q3 + 1.5*iqr
\* (with their multiplicity), every other element lies within
\* [stats.min, stats.max], and no outlier does.
C2_OutliersExactlyOutsideFences ==
    (Summarized /\ Cardinality(Range(values)) > 1) =>
        /\ Range(stats.outliers) \subseteq Range(values)
        /\ \A v \in Range(values) :
              /\ Count(stats.outliers, v) = IF IsOutlierOf(stats, v) THEN Count(values, v) ELSE 0
              /\ ~IsOutlierOf(stats, v) => (stats.min <= v /\ v <= stats.max)
              /\ IsOutlierOf(stats, v) => (v < stats.min \/ v > stats.max)

C2_Witness ==
    /\ Summarized
    /\ Cardinality(Range(values)) > 1
    /\ stats.outliers # <<>>
    /\ Len(stats.outliers) < Len(values)

\* C6: for every non-empty collection, q1 <= median <= q3.
C6_QuartilesOrdered ==
    Summarized => (stats.q1 <= stats.median /\ stats.median <= stats.q3)

C6_Witness == Summarized /\ stats.q1 < stats.median /\ stats.median < stats.q3

\* C7: for every non-empty collection in which at least one value is not
\* an outlier, min <= q1 and max >= q3.
C7_WhiskersEncloseBox ==
    (Summarized /\ \E v \in Range(values) : ~IsOutlierOf(stats, v)) =>
        (stats.min <= stats.q1 /\ stats.max >= stats.q3)

C7_Witness ==
    /\ Summarized
    /\ \E v \in Range(values) : ~IsOutlierOf(stats, v)
    /\ stats.outliers # <<>>
    /\ stats.min < stats.q1
    /\ stats.max > stats.q3

\* C8: the result does not depend on the order of the array nor on the
\* call: every call on the same multiset of values, in whatever order the
\* array holds them, returns what the first call returned.
C8_OrderIndependent == calls > 0 => stats = first

C8_Witness ==
    /\ calls = MaxCalls
    /\ Len(stats.outliers) > 1
    /\ stats.outliers[1] # stats.outliers[Len(stats.outliers)]

\* C9: for a collection whose values all equal v (a single value included)
\* q1 = median = q3 = v, iqr = 0, both fences and both whisker ends are v
\* and there is no outlier.
C9_DegenerateGroup ==
    (Summarized /\ Cardinality(Range(values)) = 1) =>
        LET v == values[1]
        IN /\ stats.q1 = v /\ stats.median = v /\ stats.q3 = v
           /\ stats.iqr = 0
           /\ TwiceLowerFenceOf(stats) = 2 * v /\ TwiceUpperFenceOf(stats) = 2 * v
           /\ stats.min = v /\ stats.max = v
           /\ stats.outliers = <<>>

C9_Witness == Summarized /\ Cardinality(Range(values)) = 1 /\ Len(values) > 1

\* the chart has been drawn for the current state
DrawnOnce == pc = "ready"

\* the rows of this.data whose value of the active metric is a number > 0
HasValidValue(type) ==
    \E i \in DOMAIN data :
        /\ data[i].propertyType = type
        /\ IsNum(MetricOf(data[i], currentMetric))
        /\ MetricOf(data[i], currentMetric) > 0

BoxGlyphClasses == {"box", "whisker", "rect", "median", "cap"}

\* C3: under the log scale a record whose value of the active metric is
\* zero or negative gets no mark: no circle of the chart belongs to it.
C3_NoMarkForNonPositive ==
    (DrawnOnce /\ useLogScale) =>
        \A k \in DOMAIN svg :
            svg[k].tag = "circle" =>
                ~(IsNum(MetricOf(data[svg[k].row], currentMetric))
                  /\ MetricOf(data[svg[k].row], currentMetric) <= 0)

\* C4: a property type without any valid value of the active metric is
\* left out of the domain of the categorical axis and gets no box, whisker,
\* median or cap glyph.
C4_EmptyCategoryOmitted ==
    DrawnOnce =>
        /\ \A k \in DOMAIN scales.x : HasValidValue(scales.x[k])
        /\ \A k \in DOMAIN svg :
              svg[k].cls \in BoxGlyphClasses => HasValidValue(svg[k].type)

\* C5: after init and after any sequence of clicks the group holds exactly
\* the elements that one draw() of the current (data, currentMetric,
\* useLogScale) appends: nothing of an earlier draw is left and nothing
\* accumulates.
C5_RedrawReplaces ==
    DrawnOnce => svg = Appended(data, currentMetric, useLogScale)

C5_Witness ==
    /\ DrawnOnce
    /\ useLogScale
    /\ currentMetric = "pricePerSqft"
    /\ \E k \in DOMAIN svg : svg[k].tag = "circle"
    /\ \E k \in DOMAIN svg : svg[k].cls = "box"

\* C10: when draw() has run under the log scale and some property type has
\* a valid value, the lower end of the domain of the log axis is a number
\* > 0, before and after .nice().
C10_LogDomainPositive ==
    (DrawnOnce /\ scales.log /\ \E k \in DOMAIN scales.x : HasValidValue(scales.x[k])) =>
        /\ IsNum(scales.domain[1]) /\ scales.domain[1] > 0
        /\ IsNum(scales.niceLower) /\ scales.niceLower > 0

C10_Witness ==
    /\ DrawnOnce
    /\ scales.log
    /\ currentMetric = "pricePerSqft"
    /\ \E i \in DOMAIN data : MetricOf(data[i], currentMetric) = 0
    /\ \E i \in DOMAIN data : MetricOf(data[i], currentMetric) = NaN
    /\ \E k \in DOMAIN scales.x : HasValidValue(scales.x[k])
    /\ \E k \in DOMAIN scales.x : ~HasValidValue(scales.x[k])

\* the handler has left this.svg and the scales as one draw() of the new
\* state makes them, statistics included
RedrawnForNewState ==
    /\ svg' = Appended(data', currentMetric', useLogScale')
    /\ scales' = Scales(data', currentMetric', useLogScale')

\* C12: a click on the metric button switches currentMetric between
\* 'price' and 'pricePerSqft' and leaves useLogScale alone, a click on the
\* log scale button negates useLogScale and leaves currentMetric alone, and
\* each click ends with the chart drawn anew for the updated options.
C12_ClicksToggleAndRedraw ==
    [][ /\ ClickMetric =>
              /\ currentMetric' = (IF currentMetric = "price" THEN "pricePerSqft" ELSE "price")
              /\ useLogScale' = useLogScale
              /\ RedrawnForNewState
        /\ ClickLogScale =>
              /\ useLogScale' = ~useLogScale
              /\ currentMetric' = currentMetric
              /\ RedrawnForNewState ]_vars

C12_Witness ==
    /\ DrawnOnce
    /\ currentMetric = "pricePerSqft"
    /\ buttonText = "Switch to Price"
    /\ useLogScale
    /\ Len(scales.x) = 2

\* C13: after load no step changes this.data: draws, metric clicks, scale
\* clicks and hover events leave every row in place.
C13_DataImmutableAfterLoad == [][pc = "ready" => data' = data]_vars

C13_Witness ==
    /\ DrawnOnce
    /\ tooltipShown
    /\ useLogScale
    /\ currentMetric = "pricePerSqft"
    /\ \E i, j \in DOMAIN data :
          i < j /\ Gt(MetricOf(data[i], currentMetric), MetricOf(data[j], currentMetric))

\* C14: when no row is left after load, the chart holds the two axes, the
\* title and the axis label and nothing else, under either scale.
C14_EmptyDatasetAxesOnly ==
    (DrawnOnce /\ data = <<>>) =>
        /\ [k \in DOMAIN svg |-> svg[k].cls] = <<"x-axis", "y-axis", "title", "y-label">>
        /\ \A k \in DOMAIN svg :
              /\ svg[k].tag \notin {"rect", "line", "circle"}
              /\ svg[k].cls \notin BoxGlyphClasses

C14_Witness ==
    /\ DrawnOnce
    /\ data = <<>>
    /\ useLogScale
    /\ currentMetric = "pricePerSqft"
    /\ Len(svg) = 4

\* the rows of a type that the chart shows as outlier circles
PlottedRows(type) ==
    {svg[k].row : k \in {j \in DOMAIN svg : svg[j].tag = "circle" /\ svg[j].type = type}}

\* the rows of a type whose value is among the outliers that
\* calculateBoxStats returns for the valid values of the type
StatisticalOutlierRows(type) ==
    LET typeStats == calculateBoxStats(
            SelectSeq([k \in 1..Len(TypeRows(data, type)) |->
                          MetricOf(data[TypeRows(data, type)[k]], currentMetric)],
                      LAMBDA v : IsNum(v) /\ v > 0))
    IN {i \in DOMAIN data :
          /\ data[i].propertyType = type
          /\ MetricOf(data[i], currentMetric) \in Range(typeStats.outliers)}

\* C15: for every property type the records plotted as outlier circles are
\* exactly the records of the type whose value of the active metric is a
\* member of stats.outliers.
C15_PlottedOutliersAreStatistical ==
    DrawnOnce =>
        \A type \in Range(PropertyTypes(data)) :
            PlottedRows(type) = StatisticalOutlierRows(type)

\* C16: the metric button names the metric that is not active, the y-axis
\* label names the active one, and the title ends in '(Log Scale)' exactly
\* under the log scale.
C16_LabelsMatchState ==
    DrawnOnce =>
        /\ buttonText = "Switch to Price per Sqft" <=> currentMetric = "price"
        /\ buttonText = "Switch to Price" <=> currentMetric = "pricePerSqft"
        /\ \E k \in DOMAIN svg : svg[k].cls = "y-label"
        /\ \E k \in DOMAIN svg : svg[k].cls = "title"
        /\ \A k \in DOMAIN svg :
              /\ svg[k].cls = "y-label" =>
                    /\ svg[k].text = "Price ($)" <=> currentMetric = "price"
                    /\ svg[k].text = "Price per Sqft ($)" <=> currentMetric = "pricePerSqft"
              /\ svg[k].cls = "title" =>
                    /\ svg[k].text = "Price Distribution by Property Type (Log Scale)"
                          <=> useLogScale
                    /\ svg[k].text = "Price Distribution by Property Type " <=> ~useLogScale

C16_Witness ==
    /\ DrawnOnce
    /\ buttonText = "Switch to Price"
    /\ useLogScale
    /\ data # <<>>


\* ---------------------------------------------------------------- map claims
MapCircles == SelectSeq(mapSvg, LAMBDA e : e.cls = "city-circle")

\* the circles without their fills
Unfilled(circles) == [k \in DOMAIN circles |-> [circles[k] EXCEPT !.fill = Undefined]]

NothingCreated(d) == d = [svg |-> 0, tooltip |-> 0, controls |-> 0]

\* comparisons of fractions with positive denominators
FracEq(a, b) == a.num * b.den = b.num * a.den
FracLt(a, b) == a.num * b.den < b.num * a.den
Whole(n) == Fraction(n, 1)

\* C11: rendering never precedes the data.  As long as the fetch of a chart
\* has not resolved (constructed, fetching, or rejected for good) that chart
\* has no svg, no tooltip, no controls, no drawn element and no data; a
\* control handler runs only in the ready state; a rejected fetch stays
\* rejected.
C11_RenderingAfterData ==
    /\ [](/\ pc # "ready" => /\ NothingCreated(dom)
                             /\ svg = <<>>
                             /\ buttonText = ""
                             /\ data = <<>>
          /\ mapPc # "ready" => /\ NothingCreated(mapDom)
                                /\ mapSvg = <<>>
                                /\ cityData = <<>>)
    /\ [][ /\ (ClickMetric \/ ClickLogScale \/ Redraw) => pc = "ready"
           /\ (\E metric \in MetricOptions : SelectMetric(metric)) => mapPc = "ready"
           /\ pc = "rejected" => pc' = "rejected"
           /\ mapPc = "rejected" => mapPc' = "rejected"
           /\ pc' = "ready" => dom'.svg = 1 /\ dom'.tooltip = 1 /\ dom'.controls = 1
           /\ mapPc' = "ready" => mapDom' = [svg |-> 1, tooltip |-> 1, controls |-> 1] ]_vars

\* one chart failed to load and shows nothing, the other is ready, drawn and
\* has handled a selection
C11_Witness ==
    /\ pc = "rejected"
    /\ NothingCreated(dom)
    /\ mapPc = "ready"
    /\ mapDom.controls = 1
    /\ mapMetric = "medianIncome"
    /\ Len(MapCircles) = 1

\* C17: once the map is ready, whatever metrics were selected, it holds one
\* circle per entry of cityData, cityData has one entry per distinct city of
\* the file other than 'Unknown', each circle is at the coordinates that
\* assignCoordinates gave its city, and there is one legend and one title;
\* a step in the ready state changes neither cityData nor the coordinates
\* nor anything of the circles but their fills.
C17_OneCirclePerCity ==
    /\ [](mapPc = "ready" =>
            /\ Len(MapCircles) = Len(cityData)
            /\ Len(gridLayout) = Len(cityData)
            /\ \A k \in DOMAIN cityData :
                  /\ MapCircles[k].city = cityData[k].city
                  /\ gridLayout[k].city = cityData[k].city
                  /\ MapCircles[k].cx = gridLayout[k].x
                  /\ MapCircles[k].cy = gridLayout[k].y
            /\ {cityData[k].city : k \in DOMAIN cityData}
                 = {mapRaw[k].city : k \in DOMAIN mapRaw} \ {"Unknown"}
            /\ Cardinality({cityData[k].city : k \in DOMAIN cityData}) = Len(cityData)
            /\ Cardinality({k \in DOMAIN mapSvg : mapSvg[k].cls = "legend"}) = 1
            /\ Cardinality({k \in DOMAIN mapSvg : mapSvg[k].cls = "chart-title"}) = 1
            /\ Len(mapSvg) = Len(cityData) + 2)
    /\ [][mapPc = "ready" =>
            /\ cityData' = cityData
            /\ gridLayout' = gridLayout
            /\ mapRaw' = mapRaw
            /\ mapDom' = mapDom
            /\ Unfilled(SelectSeq(mapSvg', LAMBDA e : e.cls = "city-circle"))
                 = Unfilled(MapCircles)]_vars

\* a metric other than the initial one is selected and two cities have
\* different fills
C17_Witness ==
    /\ mapPc = "ready"
    /\ mapMetric = "priceToIncome"
    /\ Len(cityData) = 2
    /\ MapCircles[1].fill # MapCircles[2].fill
    /\ \E k \in DOMAIN mapRaw : mapRaw[k].city = "Unknown"

\* C18: assignCoordinates keeps the cities and puts them in the order of
\* their names; with n cities and cols the least c with c*c >= n, the i-th
\* city (from 0) is at the centre of column i mod cols and at the top of row
\* floor(i / cols) of ceil(n / cols) rows; no two cities share a cell; before
\* the jitter x is strictly between 0 and width and y in [20, height + 20);
\* the jitter moves a coordinate by at most 10.
C18_GridLayout ==
    [][(mapPc = "aggregated" /\ mapPc' = "assigned") =>
        LET n == Len(cityData)
            cols == CHOOSE c \in 0..n : c * c >= n /\ (c = 0 \/ (c - 1) * (c - 1) < n)
            rows == CHOOSE r \in 0..n : r * cols >= n /\ (r = 0 \/ (r - 1) * cols < n)
            g == gridLayout'
        IN /\ Len(cityData') = n
           /\ Len(g) = n
           /\ {[e EXCEPT !.x = Undefined, !.y = Undefined] : e \in Range(cityData')}
                 = Range(cityData)
           /\ {e.city : e \in Range(cityData')} = {d.city : d \in Range(cityData)}
           /\ \A k \in 1..n :
                 LET i == k - 1
                 IN /\ g[k].city = cityData'[k].city
                    /\ cityData'[k].x = g[k].x
                    /\ cityData'[k].y = g[k].y
                    /\ k < n => CityRank(cityData'[k].city) < CityRank(cityData'[k + 1].city)
                    /\ FracEq(g[k].gx, Fraction((2 * (i % cols) + 1) * MapWidth, 2 * cols))
                    /\ FracEq(g[k].gy, Fraction((i \div cols) * MapHeight + 20 * rows, rows))
                    /\ i \div cols < rows
                    /\ FracLt(Whole(0), g[k].gx) /\ FracLt(g[k].gx, Whole(MapWidth))
                    /\ ~FracLt(g[k].gy, Whole(20)) /\ FracLt(g[k].gy, Whole(MapHeight + 20))
                    /\ ~FracLt(Moved(g[k].gx, 10), g[k].x) /\ ~FracLt(g[k].x, Moved(g[k].gx, -10))
                    /\ ~FracLt(Moved(g[k].gy, 10), g[k].y) /\ ~FracLt(g[k].y, Moved(g[k].gy, -10))
           /\ \A k, l \in 1..n :
                 (FracEq(g[k].gx, g[l].gx) /\ FracEq(g[k].gy, g[l].gy)) => k = l ]_vars

\* five cities given out of order lie on two rows of three columns, one
\* moved by the lowest jitter and one by the highest
C18_Witness ==
    /\ mapPc = "assigned"
    /\ Len(gridLayout) = 5
    /\ FracEq(gridLayout[5].gx, Whole(MapWidth \div 2))
    /\ FracLt(gridLayout[1].gy, gridLayout[5].gy)
    /\ FracEq(gridLayout[1].x, Moved(gridLayout[1].gx, -10))
    /\ FracEq(gridLayout[2].y, Moved(gridLayout[2].gy, 9))

====
